---- MODULE Spec2Model ----
(***************************************************************************)
(* Deferred Payment Facilitator: the authorization ledger                  *)
(* (FacilitatorService), the settlement engine (SettlementService) and the *)
(* facilitator routes that reach into them.                                *)
(*                                                                         *)
(* Time is counted in units of one hour (3600 s), so the default           *)
(* timeThreshold of 3600 seconds is one unit of the clock.  Amounts are    *)
(* counted in millionths (the 6 decimals of toFixed(6)); the amounts used  *)
(* are dyadic, so the floating-point sums of the code are exact.           *)
(***************************************************************************)
EXTENDS Integers, Sequences, FiniteSets, TLC

----------------------------------------------------------------------------
(* Bounds of the model *)

MaxTime == 1
MaxQueue == 2
MaxBatches == 2
MaxDisputes == 1
MaxCalls == 2

----------------------------------------------------------------------------
(* Configuration (routes/facilitator: the defaults of the environment) *)

amountThreshold == 1000000
timeThreshold == 1
countThreshold == 100

----------------------------------------------------------------------------
(* Values *)

Agents == {"A", "B"}
Merchants == {"M1", "M2"}
AuthIds == {"a1", "a2"}
NoMerchant == "undefined"
NoAuth == [id |-> "undefined"]
Undefined == -1

AuthorizationStatus == {"pending", "validated", "settled", "disputed", "expired"}

\* The status values a sender writes into the body of POST /verify
SubmittedStatus == {"pending", "settled"}

\* agentAddress.substring(0, 8)
Prefix(agentAddress) == "AgentXXX"

\* The authorizations agents submit: the immutable fields of each id.
AgentOf(id) == "A"
MerchantOf(id) == IF id = "a2" THEN "M2" ELSE "M1"
AmountOf(id) == IF id = "a2" THEN 1000000 ELSE 500000
ExpiresAtOf(id) == IF id = "a1" THEN 0 ELSE 9

\* [id, agent, merchant, amount, currency, timestamp, expiresAt, nonce].join('|')
Payload(auth) ==
  <<auth.id, auth.agentAddress, auth.merchantAddress, auth.amount,
    auth.currency, auth.timestamp, auth.expiresAt, auth.nonce>>

\* createHash('sha256').update(payload).digest('hex'): injective on the payloads used
Sha256Hex(payload) == <<"sha256", payload>>

\* A request body of POST /verify: the signature is the digest or not, and the
\* status field is whatever the sender wrote.
Authorization(id, status, goodSig) ==
  LET body == [id |-> id, agentAddress |-> AgentOf(id), merchantAddress |-> MerchantOf(id),
               amount |-> AmountOf(id), currency |-> "USDC", timestamp |-> 0,
               expiresAt |-> ExpiresAtOf(id), nonce |-> "n", status |-> status]
  IN [id |-> id, agentAddress |-> body.agentAddress, merchantAddress |-> body.merchantAddress,
      amount |-> body.amount, currency |-> body.currency, timestamp |-> body.timestamp,
      expiresAt |-> body.expiresAt, nonce |-> body.nonce, status |-> status,
      signature |-> IF goodSig THEN Sha256Hex(Payload(body)) ELSE <<"sha256", <<>>>>]

----------------------------------------------------------------------------
(* Sequences as the code uses arrays *)

\* A membership test that never finds anything
IncludesNothing(seq, x) == FALSE

Includes(seq, x) == \E i \in 1..Len(seq) : seq[i] = x

\* Array.prototype.indexOf: the first position, 0 when absent
IndexOf(seq, x) ==
  IF Includes(seq, x) THEN CHOOSE i \in 1..Len(seq) : seq[i] = x /\ \A j \in 1..(i-1) : seq[j] # x
  ELSE 0

\* A splice that was forgotten: the array is left as it was
SpliceOutNothing(seq, x) == seq

\* indexOf + splice(index, 1): removes the first occurrence only
SpliceOut(seq, x) ==
  LET k == IndexOf(seq, x)
  IN IF k = 0 THEN seq
     ELSE [i \in 1..(Len(seq)-1) |-> IF i < k THEN seq[i] ELSE seq[i+1]]

RECURSIVE SumSeq(_)
SumSeq(seq) == IF seq = <<>> THEN 0 ELSE Head(seq) + SumSeq(Tail(seq))

Count(seq, x) == Cardinality({i \in 1..Len(seq) : seq[i] = x})

----------------------------------------------------------------------------
(* State *)

VARIABLES
  now,                \* Date.now()
  authorizations,     \* FacilitatorService.authorizations (NoAuth: no such key)
  authKeys,           \* the keys of authorizations in insertion order (Object.values order)
  agentUsage,         \* FacilitatorService.agentUsage
  settlementQueue,    \* FacilitatorService.settlementQueue
  settlementBatches,  \* FacilitatorService.settlementBatches
  disputes,           \* FacilitatorService.disputes
  disputeLog,         \* history, one entry per dispute: the resolution argument last
                      \* given to resolveDispute for it ("none" before)
  processing,         \* SettlementService.processing
  calls,              \* triggerSettlement calls suspended in executeSettlement
  autoTrigger,        \* SettlementService.autoTrigger
  intervalHandle,     \* SettlementService.intervalHandle (NoHandle: undefined)
  timers,             \* the intervals of setInterval that have not been cleared
  metricsHistory,     \* MonitoringService.metricsHistory
  report,             \* what the last Monitoring projection returned
  observed,           \* whether the replies of the facilitator routes are recorded
  result              \* what the last operation returned or threw

serviceVars == <<autoTrigger, intervalHandle, timers, metricsHistory, report>>

vars == <<now, authorizations, authKeys, agentUsage, settlementQueue, settlementBatches,
          disputes, disputeLog, processing, calls, observed, serviceVars, result>>

facilitatorVars == <<authorizations, authKeys, agentUsage, settlementQueue,
                     settlementBatches, disputes, disputeLog>>

NoUsage == [authorizations |-> <<>>, totalAmount |-> 0, firstRequestAt |-> 0,
            requestCount |-> 0]

Silent == [op |-> "", ok |-> TRUE, reason |-> "", batch |-> 0]

\* The reply of a facilitator route
Returned(op, ok, reason) ==
  IF observed THEN [op |-> op, ok |-> ok, reason |-> reason, batch |-> 0] ELSE Silent

\* How a triggerSettlement call that dispatched the batch at position k ended
Ended(ok, reason, k) == [op |-> "triggerSettlement", ok |-> ok, reason |-> reason, batch |-> k]

NoHandle == 0
NoReport == [op |-> "none"]

\* The services as the routes module leaves them when it is loaded: start() is
\* called once when auto-settlement is enabled, and no snapshot is taken yet
Loaded(enabled) ==
  /\ autoTrigger = enabled
  /\ intervalHandle = (IF enabled THEN 1 ELSE NoHandle)
  /\ timers = (IF enabled THEN {1} ELSE {})
  /\ metricsHistory = <<>>
  /\ report = NoReport

Init ==
  /\ now = 0
  /\ authorizations = [id \in AuthIds |-> NoAuth]
  /\ authKeys = <<>>
  /\ agentUsage = [a \in Agents |-> NoUsage]
  /\ settlementQueue = <<>>
  /\ settlementBatches = <<>>
  /\ disputes = <<>>
  /\ disputeLog = <<>>
  /\ processing = {}
  /\ calls = {}
  /\ Loaded(TRUE)
  /\ observed = FALSE
  /\ result = Silent

----------------------------------------------------------------------------
(* The clock *)

Advance ==
  /\ now < MaxTime
  /\ now' = now + 1
  /\ UNCHANGED <<facilitatorVars, processing, calls, observed, serviceVars, result>>

----------------------------------------------------------------------------
(* FacilitatorService *)

Exists(id) == authorizations[id] # NoAuth

\* A signature check that accepts every signature
verifySignatureSkipped(authorization) == TRUE

verifySignature(authorization) ==
  Sha256Hex(Payload(authorization)) = authorization.signature

\* A verify that keeps no books
trackNothing(usage, authorization) == usage

\* agentUsage[agent] is created on the first authorization (requestCount = 0 before)
trackAgentUsage(usage, authorization) ==
  LET agentAddress == authorization.agentAddress
      u == IF usage[agentAddress].requestCount = 0 /\ usage[agentAddress].authorizations = <<>>
           THEN [NoUsage EXCEPT !.firstRequestAt = now]
           ELSE usage[agentAddress]
  IN [usage EXCEPT ![agentAddress] =
        [authorizations |-> Append(u.authorizations, authorization.id),
         totalAmount |-> u.totalAmount + authorization.amount,
         firstRequestAt |-> u.firstRequestAt,
         requestCount |-> u.requestCount + 1]]

verifyAuthorization(authorization) ==
  /\ IF Exists(authorization.id)
     THEN /\ result' = Returned("verify", FALSE, "Authorization already exists")
          /\ UNCHANGED <<authorizations, authKeys, agentUsage>>
     ELSE IF authorization.expiresAt < now
     THEN /\ result' = Returned("verify", FALSE, "Authorization expired")
          /\ UNCHANGED <<authorizations, authKeys, agentUsage>>
     ELSE IF ~verifySignature(authorization)
     THEN /\ result' = Returned("verify", FALSE, "Invalid signature")
          /\ UNCHANGED <<authorizations, authKeys, agentUsage>>
     ELSE /\ authorizations' = [authorizations EXCEPT ![authorization.id] = authorization]
          /\ authKeys' = Append(authKeys, authorization.id)
          /\ agentUsage' = trackAgentUsage(agentUsage, authorization)
          /\ result' = Returned("verify", TRUE, "")
  /\ UNCHANGED <<now, settlementQueue, settlementBatches, disputes, disputeLog,
                 processing, calls, observed, serviceVars>>

Verify ==
  \E id \in AuthIds, status \in SubmittedStatus, goodSig \in BOOLEAN :
    verifyAuthorization(Authorization(id, status, goodSig))

\* The authorizations of the queue, in queue order, that belong to the agent
QueuedOf(queue, auths, agentAddress) ==
  SelectSeq(queue, LAMBDA id : auths[id] # NoAuth /\ auths[id].agentAddress = agentAddress)

AmountsOf(ids, auths) == [i \in 1..Len(ids) |-> auths[ids[i]].amount]

\* A threshold check that looks at the queued amount only
checkAmountOnly(queue, auths, agentAddress) ==
  SumSeq(AmountsOf(QueuedOf(queue, auths, agentAddress), auths)) >= amountThreshold

checkSettlementThresholds(queue, auths, agentAddress) ==
  LET usage == agentUsage[agentAddress]
      queuedAuthorizations == QueuedOf(queue, auths, agentAddress)
      queuedAmount == SumSeq(AmountsOf(queuedAuthorizations, auths))
      queuedCount == Len(queuedAuthorizations)
      timeSinceFirst == now - usage.firstRequestAt
  IN IF usage.requestCount = 0 THEN FALSE
     ELSE \/ queuedAmount >= amountThreshold
          \/ timeSinceFirst >= timeThreshold
          \/ queuedCount >= countThreshold

queueForSettlement(authorizationId) ==
  /\ IF ~Exists(authorizationId)
     THEN /\ result' = Returned("queue", FALSE, "Authorization not found")
          /\ UNCHANGED <<authorizations, settlementQueue>>
     ELSE IF Includes(settlementQueue, authorizationId)
     THEN /\ result' = Returned("queue", FALSE, "Already queued")
          /\ UNCHANGED <<authorizations, settlementQueue>>
     ELSE IF authorizations[authorizationId].status = "settled"
     THEN /\ result' = Returned("queue", FALSE, "Already settled")
          /\ UNCHANGED <<authorizations, settlementQueue>>
     ELSE /\ Len(settlementQueue) < MaxQueue
          /\ settlementQueue' = Append(settlementQueue, authorizationId)
          /\ authorizations' = [authorizations EXCEPT ![authorizationId].status = "validated"]
          /\ result' = Returned("queue", TRUE,
               IF checkSettlementThresholds(settlementQueue', authorizations',
                                            authorizations[authorizationId].agentAddress)
               THEN "Settlement threshold met" ELSE "")
  /\ UNCHANGED <<now, authKeys, agentUsage, settlementBatches, disputes, disputeLog,
                 processing, calls, observed, serviceVars>>

Queue == \E id \in AuthIds : queueForSettlement(id)

\* The facilitator's containers as one value, so that a handler which calls
\* several facilitator methods in a row is one step.
Cur == [auths |-> authorizations, queue |-> settlementQueue,
        batches |-> settlementBatches, proc |-> processing]

Install(S) ==
  /\ authorizations' = S.auths
  /\ settlementQueue' = S.queue
  /\ settlementBatches' = S.batches
  /\ processing' = S.proc

Range(seq) == {seq[i] : i \in 1..Len(seq)}

MerchantsOf(ids, auths) == [i \in 1..Len(ids) |-> auths[ids[i]].merchantAddress]

\* The merchant of the first queued authorization, whatever the counts
FirstQueuedMerchant(merchantSeq) == merchantSeq[1]

\* merchantCounts.forEach with count > maxCount: the first merchant, in the
\* order the Map saw them, whose count is the largest
MostQueuedMerchant(merchantSeq) ==
  CHOOSE m \in Range(merchantSeq) :
    \A o \in Range(merchantSeq) \ {m} :
      \/ Count(merchantSeq, m) > Count(merchantSeq, o)
      \/ /\ Count(merchantSeq, m) = Count(merchantSeq, o)
         /\ IndexOf(merchantSeq, m) < IndexOf(merchantSeq, o)

NoBatch == 0

BatchId(agentAddress) == <<"batch", now, Prefix(agentAddress)>>

\* createSettlementBatch: [S |-> the state after, batch |-> the position of the
\* new batch in settlementBatches, NoBatch for null].  The members are the
\* stored authorization objects themselves, named by their ids.
createSettlementBatch(S, agentAddress, merchantAddress) ==
  LET agentAuthorizations == QueuedOf(S.queue, S.auths, agentAddress)
      merchant == IF merchantAddress # NoMerchant THEN merchantAddress
                  ELSE MostQueuedMerchant(MerchantsOf(agentAuthorizations, S.auths))
      members == SelectSeq(agentAuthorizations,
                           LAMBDA id : S.auths[id].merchantAddress = merchant)
      batch == [id |-> BatchId(agentAddress),
                agentAddress |-> agentAddress,
                merchantAddress |-> merchant,
                authorizations |-> members,
                totalAmount |-> SumSeq(AmountsOf(members, S.auths)),
                currency |-> S.auths[members[1]].currency,
                status |-> "pending",
                createdAt |-> now,
                settledAt |-> Undefined,
                transactionSignature |-> "",
                error |-> ""]
  IN IF agentAuthorizations = <<>> THEN [S |-> S, batch |-> NoBatch]
     ELSE IF members = <<>> THEN [S |-> S, batch |-> NoBatch]
     ELSE [S |-> [S EXCEPT !.batches = Append(S.batches, batch)],
           batch |-> Len(S.batches) + 1]

\* settlementBatches.find(b => b.id === batchId): the first batch with that id
FindBatch(batches, batchId) ==
  IF \E i \in 1..Len(batches) : batches[i].id = batchId
  THEN CHOOSE i \in 1..Len(batches) :
         batches[i].id = batchId /\ \A j \in 1..(i-1) : batches[j].id # batchId
  ELSE NoBatch

\* A completion that leaves the queue as it is
SpliceNone(queue, ids) == queue

\* one indexOf + splice per member
RECURSIVE SpliceAll(_, _)
SpliceAll(queue, ids) ==
  IF ids = <<>> THEN queue ELSE SpliceAll(SpliceOut(queue, Head(ids)), Tail(ids))

SetStatus(auths, ids, status) ==
  [id \in DOMAIN auths |->
     IF Includes(ids, id) THEN [auths[id] EXCEPT !.status = status] ELSE auths[id]]

\* completeSettlement on the batch at position k (found by its id)
completeSettlement(S, k, transactionSignature) ==
  [S EXCEPT !.batches[k] = [@ EXCEPT !.status = "completed", !.settledAt = now,
                                     !.transactionSignature = transactionSignature],
            !.auths = SetStatus(S.auths, S.batches[k].authorizations, "settled"),
            !.queue = SpliceAll(S.queue, S.batches[k].authorizations)]

\* A failure that also takes the members out of the queue
failSettlementUnqueues(S, k, error) ==
  [S EXCEPT !.batches[k] = [@ EXCEPT !.status = "failed", !.error = error],
            !.auths = SetStatus(S.auths, S.batches[k].authorizations, "pending"),
            !.queue = SelectSeq(S.queue, LAMBDA id : ~Includes(S.batches[k].authorizations, id))]

\* failSettlement on the batch at position k (found by its id)
failSettlement(S, k, error) ==
  [S EXCEPT !.batches[k] = [@ EXCEPT !.status = "failed", !.error = error],
            !.auths = SetStatus(S.auths, S.batches[k].authorizations, "pending")]

(* The routes of the facilitator API *)

\* POST /batch/create
createBatch(agentAddress, merchantAddress) ==
  LET r == createSettlementBatch(Cur, agentAddress, merchantAddress)
  IN /\ IF r.batch = NoBatch
        THEN /\ result' = Returned("batch/create", FALSE, "No authorizations to settle")
             /\ UNCHANGED settlementBatches
        ELSE /\ Len(settlementBatches) < MaxBatches
             /\ settlementBatches' = r.S.batches
             /\ result' = Returned("batch/create", TRUE, "")
     /\ UNCHANGED <<now, authorizations, authKeys, agentUsage, settlementQueue,
                    disputes, disputeLog, processing, calls, observed, serviceVars>>

CreateBatch ==
  \E agentAddress \in Agents, merchantAddress \in Merchants \cup {NoMerchant} :
    createBatch(agentAddress, merchantAddress)

\* The batch ids a caller can name: those of the registry and one that is not
BatchIds == {settlementBatches[i].id : i \in 1..Len(settlementBatches)} \cup {<<"batch", -1, "">>}

\* The strings a caller puts into a text field of a request body: none, or some
BodyText(text) == {"", text}

\* POST /batch/complete
CompleteBatch ==
  \E batchId \in BatchIds, transactionSignature \in BodyText("tx_abc") :
    LET k == FindBatch(settlementBatches, batchId)
    IN /\ IF transactionSignature = ""
          THEN /\ result' = Returned("batch/complete", FALSE, "Missing required fields")
               /\ UNCHANGED <<authorizations, settlementQueue, settlementBatches, processing>>
          ELSE IF k = NoBatch
          THEN /\ result' = Returned("batch/complete", FALSE, "Settlement batch not found")
               /\ UNCHANGED <<authorizations, settlementQueue, settlementBatches, processing>>
          ELSE /\ Install(completeSettlement(Cur, k, transactionSignature))
               /\ result' = Returned("batch/complete", TRUE, "")
       /\ UNCHANGED <<now, authKeys, agentUsage, disputes, disputeLog, calls, observed, serviceVars>>

\* POST /batch/fail
FailBatch ==
  \E batchId \in BatchIds, error \in BodyText("failed") :
    LET k == FindBatch(settlementBatches, batchId)
    IN /\ IF error = ""
          THEN /\ result' = Returned("batch/fail", FALSE, "Missing required fields")
               /\ UNCHANGED <<authorizations, settlementQueue, settlementBatches, processing>>
          ELSE IF k = NoBatch
          THEN /\ result' = Returned("batch/fail", FALSE, "Settlement batch not found")
               /\ UNCHANGED <<authorizations, settlementQueue, settlementBatches, processing>>
          ELSE /\ Install(failSettlement(Cur, k, error))
               /\ result' = Returned("batch/fail", TRUE, "")
       /\ UNCHANGED <<now, authKeys, agentUsage, disputes, disputeLog, calls, observed, serviceVars>>

\* POST /settle: marks one authorization settled, no batch involved
Settle ==
  \E authorizationId \in AuthIds :
    /\ IF ~Exists(authorizationId)
       THEN /\ result' = Returned("settle", FALSE, "Authorization not found")
            /\ UNCHANGED authorizations
       ELSE /\ authorizations' = [authorizations EXCEPT ![authorizationId].status = "settled"]
            /\ result' = Returned("settle", TRUE, "")
    /\ UNCHANGED <<now, authKeys, agentUsage, settlementQueue, settlementBatches,
                   disputes, disputeLog, processing, calls, observed, serviceVars>>

DisputeId(authorizationId) == <<"dispute", now, authorizationId>>

\* A dispute record that is born resolved
DisputeRecordResolved(authorizationId, agentAddress, reason) ==
  [id |-> DisputeId(authorizationId),
   authorizationId |-> authorizationId,
   agentAddress |-> agentAddress,
   merchantAddress |-> authorizations[authorizationId].merchantAddress,
   reason |-> reason,
   status |-> "resolved",
   createdAt |-> now,
   resolvedAt |-> now,
   resolution |-> ""]

\* The DisputeRecord createDispute builds
DisputeRecord(authorizationId, agentAddress, reason) ==
  [id |-> DisputeId(authorizationId),
   authorizationId |-> authorizationId,
   agentAddress |-> agentAddress,
   merchantAddress |-> authorizations[authorizationId].merchantAddress,
   reason |-> reason,
   status |-> "pending",
   createdAt |-> now,
   resolvedAt |-> Undefined,
   resolution |-> ""]

createDispute(authorizationId, agentAddress, reason) ==
  /\ IF ~Exists(authorizationId)
     THEN /\ result' = Returned("dispute", FALSE, "Authorization not found")
          /\ UNCHANGED <<authorizations, settlementQueue, disputes, disputeLog>>
     ELSE IF authorizations[authorizationId].agentAddress # agentAddress
     THEN /\ result' = Returned("dispute", FALSE, "Agent address mismatch")
          /\ UNCHANGED <<authorizations, settlementQueue, disputes, disputeLog>>
     ELSE /\ Len(disputes) < MaxDisputes
          /\ disputes' = Append(disputes, DisputeRecord(authorizationId, agentAddress, reason))
          /\ disputeLog' = Append(disputeLog, [resolution |-> "none"])
          /\ authorizations' = [authorizations EXCEPT ![authorizationId].status = "disputed"]
          /\ settlementQueue' = SpliceOut(settlementQueue, authorizationId)
          /\ result' = Returned("dispute", TRUE, "")
  /\ UNCHANGED <<now, authKeys, agentUsage, settlementBatches, processing, calls, observed, serviceVars>>

CreateDispute ==
  \E authorizationId \in AuthIds, agentAddress \in Agents :
    createDispute(authorizationId, agentAddress, "Data quality issue")

\* disputes.find(d => d.id === disputeId): the first dispute with that id
FindDispute(disputeId) ==
  IF \E i \in 1..Len(disputes) : disputes[i].id = disputeId
  THEN CHOOSE i \in 1..Len(disputes) :
         disputes[i].id = disputeId /\ \A j \in 1..(i-1) : disputes[j].id # disputeId
  ELSE 0

\* A resolution that drops the note
ResolvedWithoutNote(dispute, resolutionNote) ==
  [dispute EXCEPT !.status = "resolved", !.resolvedAt = now]

\* dispute.status = 'resolved'; dispute.resolvedAt = Date.now();
\* dispute.resolution = resolutionNote
Resolved(dispute, resolutionNote) ==
  [dispute EXCEPT !.status = "resolved", !.resolvedAt = now, !.resolution = resolutionNote]

resolveDispute(disputeId, resolution, resolutionNote) ==
  LET k == FindDispute(disputeId)
      authorizationId == disputes[k].authorizationId
  IN /\ IF k = 0
        THEN /\ result' = Returned("dispute/resolve", FALSE, "Dispute not found")
             /\ UNCHANGED <<authorizations, settlementQueue, disputes, disputeLog>>
        ELSE /\ disputes' = [disputes EXCEPT ![k] = Resolved(@, resolutionNote)]
             /\ disputeLog' = [disputeLog EXCEPT ![k].resolution = resolution]
             /\ IF resolution = "rejected"
                THEN /\ Len(settlementQueue) < MaxQueue
                     /\ authorizations' =
                          [authorizations EXCEPT ![authorizationId].status = "validated"]
                     /\ settlementQueue' = Append(settlementQueue, authorizationId)
                ELSE /\ authorizations' =
                          [authorizations EXCEPT ![authorizationId].status = "disputed"]
                     /\ UNCHANGED settlementQueue
             /\ result' = Returned("dispute/resolve", TRUE, resolution)
     /\ UNCHANGED <<now, authKeys, agentUsage, settlementBatches, processing, calls, observed, serviceVars>>

DisputeIds == {disputes[i].id : i \in 1..Len(disputes)} \cup {<<"dispute", -1, "">>}

ResolveDispute ==
  \E disputeId \in DisputeIds, resolution \in {"approved", "rejected"} :
    resolveDispute(disputeId, resolution, "note")

\* A sweep that deletes the authorization it finds expired
DeleteExpired(auth) == NoAuth

\* auth.status = 'expired': the authorization stays in the store
MarkExpired(auth) == [auth EXCEPT !.status = "expired"]

\* A sweep that does not look at the status
ExpirableWhateverStatus(auths) ==
  {id \in AuthIds : auths[id] # NoAuth /\ auths[id].expiresAt < now}

\* The authorizations cleanupExpired changes
Expirable(auths) ==
  {id \in AuthIds : auths[id] # NoAuth /\ auths[id].expiresAt < now
                    /\ auths[id].status = "pending"}

RECURSIVE SpliceEach(_, _)
SpliceEach(queue, idSet) ==
  IF idSet = {} THEN queue
  ELSE LET id == CHOOSE x \in idSet : TRUE
       IN SpliceEach(SpliceOut(queue, id), idSet \ {id})

cleanupExpired ==
  LET expired == Expirable(authorizations)
  IN /\ authorizations' = [id \in AuthIds |->
          IF id \in expired THEN MarkExpired(authorizations[id])
          ELSE authorizations[id]]
     /\ settlementQueue' = SpliceEach(settlementQueue, expired)
     /\ result' = Returned("cleanupExpired", TRUE, ToString(Cardinality(expired)))
     /\ UNCHANGED <<now, authKeys, agentUsage, settlementBatches, disputes, disputeLog,
                    processing, calls, observed, serviceVars>>

----------------------------------------------------------------------------
(* SettlementService *)

\* The elements of a sequence in the order of their first occurrence (Set, Map keys)
RECURSIVE Distinct(_)
Distinct(seq) ==
  IF seq = <<>> THEN <<>>
  ELSE <<Head(seq)>> \o Distinct(SelectSeq(Tail(seq), LAMBDA x : x # Head(seq)))

getPendingMerchants(S, agentAddress) ==
  Distinct(MerchantsOf(QueuedOf(S.queue, S.auths, agentAddress), S.auths))

\* Object.values(authorizations).filter(...): store order
listPendingAuthorizations(S, agentAddress) ==
  SelectSeq(authKeys, LAMBDA id : /\ S.auths[id].agentAddress = agentAddress
                                  /\ S.auths[id].status = "validated"
                                  /\ Includes(S.queue, id))

checkThresholds(pendingAuths, auths, usage) ==
  LET totalAmount == SumSeq(AmountsOf(pendingAuths, auths))
      totalCount == Len(pendingAuths)
      timeSinceFirst == now - usage.firstRequestAt
  IN \/ totalAmount >= amountThreshold
     \/ timeSinceFirst >= timeThreshold
     \/ totalCount >= countThreshold

\* A key that carries the clock value, as the batch id does
ProcessingKeyWithClock(agentAddress, merchantAddress) == <<agentAddress, merchantAddress, now>>

ProcessingKey(agentAddress, merchantAddress) == <<agentAddress, merchantAddress>>

NoCall == [batch |-> NoBatch]

\* A triggerSettlement whose in-flight check sits inside the try block, so that
\* the early return runs the finally block and deletes the key of the other call
triggerSettlementChecksInsideTry(S, agentAddress, merchantAddress) ==
  LET processingKey == ProcessingKey(agentAddress, merchantAddress)
      merchants == IF merchantAddress # NoMerchant THEN <<merchantAddress>>
                   ELSE getPendingMerchants(S, agentAddress)
      r == createSettlementBatch(S, agentAddress, merchants[1])
  IN IF processingKey \in S.proc
     THEN [S |-> [S EXCEPT !.proc = @ \ {processingKey}], batch |-> NoBatch]
     ELSE IF merchants = <<>> THEN [S |-> S, batch |-> NoBatch]
     ELSE IF r.batch = NoBatch THEN [S |-> S, batch |-> NoBatch]
     ELSE [S |-> [r.S EXCEPT !.proc = @ \cup {processingKey}], batch |-> r.batch]

\* triggerSettlement up to its suspension in executeSettlement:
\* [S |-> the state after, batch |-> the batch dispatched, NoBatch when the call
\* returned null (its key, if it added one, is deleted again by finally)]
triggerSettlement(S, agentAddress, merchantAddress) ==
  LET processingKey == ProcessingKey(agentAddress, merchantAddress)
      merchants == IF merchantAddress # NoMerchant THEN <<merchantAddress>>
                   ELSE getPendingMerchants(S, agentAddress)
      r == createSettlementBatch(S, agentAddress, merchants[1])
  IN IF processingKey \in S.proc THEN [S |-> S, batch |-> NoBatch]
     ELSE IF merchants = <<>> THEN [S |-> S, batch |-> NoBatch]
     ELSE IF r.batch = NoBatch THEN [S |-> S, batch |-> NoBatch]
     ELSE [S |-> [r.S EXCEPT !.proc = @ \cup {processingKey}], batch |-> r.batch]

\* getSettlementBatches(agentAddress), last element
LatestBatch(batches, agentAddress) ==
  CHOOSE i \in 1..Len(batches) :
    /\ batches[i].agentAddress = agentAddress
    /\ \A j \in (i+1)..Len(batches) : batches[j].agentAddress # agentAddress

\* What signAndSend can answer in transaction_signature: nothing, or a signature
TransactionSignatures == {"", "5xSig"}

\* A Signer answer handed on as it came
SignatureAsAnswered(transaction_signature) == transaction_signature

\* result.transaction_signature || 'success'
Signature(transaction_signature) ==
  IF transaction_signature = "" THEN "success" ELSE transaction_signature

\* triggerSettlement after executeSettlement returned a signature
settlementSucceeded(S, call, signature) ==
  LET batch == S.batches[call.batch]
      S1 == completeSettlement(S, FindBatch(S.batches, batch.id), signature)
  IN [S1 EXCEPT !.proc = @ \ {call.key}]

\* triggerSettlement after executeSettlement threw: catch, then finally
settlementFailed(S, call, message) ==
  LET latestBatch == S.batches[LatestBatch(S.batches, call.agentAddress)]
      S1 == IF latestBatch.status = "pending"
            THEN failSettlement(S, FindBatch(S.batches, latestBatch.id), message)
            ELSE S
  IN [S1 EXCEPT !.proc = @ \ {call.key}]

\* The (agent, merchant) pairs of the validated authorizations, in the order
\* the Map of Sets of checkAndTriggerSettlements yields them
AgentMerchantPairs(auths) ==
  LET validated == SelectSeq(authKeys, LAMBDA id : auths[id].status = "validated")
      agentSeq == Distinct([i \in 1..Len(validated) |-> auths[validated[i]].agentAddress])
      MerchantsFor(a) ==
        Distinct(MerchantsOf(SelectSeq(validated, LAMBDA id : auths[id].agentAddress = a), auths))
      PairsFor(a) == [i \in 1..Len(MerchantsFor(a)) |-> <<a, MerchantsFor(a)[i]>>]
      Flatten[i \in 0..Len(agentSeq)] ==
        IF i = 0 THEN <<>> ELSE Flatten[i-1] \o PairsFor(agentSeq[i])
  IN Flatten[Len(agentSeq)]

\* The loop of checkAndTriggerSettlements over the pairs still to visit, up to
\* the first triggerSettlement that suspends: [S, call |-> that call or NoCall]
RECURSIVE checkPairs(_, _)
checkPairs(S, pairs) ==
  IF pairs = <<>> THEN [S |-> S, call |-> NoCall]
  ELSE
    LET agentAddress == Head(pairs)[1]
        merchantAddress == Head(pairs)[2]
        pendingAuths == SelectSeq(listPendingAuthorizations(S, agentAddress),
                                  LAMBDA id : S.auths[id].merchantAddress = merchantAddress)
        shouldSettle == checkThresholds(pendingAuths, S.auths, agentUsage[agentAddress])
        t == triggerSettlement(S, agentAddress, merchantAddress)
    IN IF pendingAuths = <<>> THEN checkPairs(S, Tail(pairs))
       ELSE IF ~shouldSettle THEN checkPairs(S, Tail(pairs))
       ELSE IF t.batch = NoBatch THEN checkPairs(S, Tail(pairs))
       ELSE [S |-> t.S,
             call |-> [key |-> ProcessingKey(agentAddress, merchantAddress),
                       agentAddress |-> agentAddress,
                       batch |-> t.batch,
                       rest |-> Tail(pairs)]]

\* The state after a step of the engine, within the bounds of the model
Proceed(r, finished) ==
  /\ Len(r.S.batches) <= MaxBatches
  /\ Install(r.S)
  /\ calls' = (calls \ finished) \cup (IF r.call = NoCall THEN {} ELSE {r.call})
  /\ Cardinality(calls') <= MaxCalls
  /\ UNCHANGED <<now, authKeys, agentUsage, disputes, disputeLog, observed, serviceVars>>

\* One run of the interval callback, up to its first suspension
checkAndTriggerSettlements ==
  /\ Proceed(checkPairs(Cur, AgentMerchantPairs(authorizations)), {})
  /\ result' = Silent

\* POST /settlement/trigger
forceSettlement(agentAddress) ==
  LET t == triggerSettlement(Cur, agentAddress, NoMerchant)
      call == IF t.batch = NoBatch THEN NoCall
              ELSE [key |-> ProcessingKey(agentAddress, NoMerchant),
                    agentAddress |-> agentAddress,
                    batch |-> t.batch,
                    rest |-> <<>>]
  IN /\ Proceed([S |-> t.S, call |-> call], {})
     /\ result' = IF t.batch = NoBatch
                  THEN Returned("settlement/trigger", FALSE, "No pending authorizations to settle")
                  ELSE Silent

ForceSettlement == \E agentAddress \in Agents : forceSettlement(agentAddress)

\* The Signer returns a signature to a suspended call; the tick that made the
\* call goes on with its remaining pairs
SignerSucceeds ==
  \E call \in calls, transaction_signature \in TransactionSignatures :
    /\ Proceed(checkPairs(settlementSucceeded(Cur, call, Signature(transaction_signature)),
                          call.rest), {call})
    /\ result' = Ended(TRUE, "", call.batch)

\* An error that leaves the loop: no group is visited after it
AfterThrow(call) == <<>>

\* The catch inside the loop of checkAndTriggerSettlements: the error of
\* triggerSettlement is logged and the loop goes on with the pairs left
AfterCatch(call) == call.rest

\* The Signer fails; triggerSettlement rethrows the error after its catch block
SignerFails ==
  \E call \in calls :
    /\ Proceed(checkPairs(settlementFailed(Cur, call, "Signer error"), AfterCatch(call)),
               {call})
    /\ result' = Ended(FALSE, "Signer error", call.batch)

----------------------------------------------------------------------------
(* Specifications.  The whole system at once is beyond what can be explored, *)
(* so the ledger and the engine are explored apart, each with the clock and  *)
(* with the requests that feed it.                                           *)

\* Every method and route of the ledger, called one after the other in any order
NextLedger ==
  \/ Advance
  \/ Verify
  \/ Queue
  \/ CreateBatch
  \/ CompleteBatch
  \/ FailBatch
  \/ Settle
  \/ CreateDispute
  \/ ResolveDispute
  \/ cleanupExpired

SpecLedger == Init /\ [][NextLedger]_vars

\* The life of an authorization apart from batches: verify, queue, /settle,
\* disputes and the sweep
NextLifecycle ==
  \/ Advance
  \/ Verify
  \/ Queue
  \/ Settle
  \/ CreateDispute
  \/ ResolveDispute
  \/ cleanupExpired

SpecLifecycle == Init /\ [][NextLifecycle]_vars

\* The engine: overlapping scheduler ticks and manual triggers around the
\* suspension in the Signer, fed by verify and queue
NextEngine ==
  \/ Advance
  \/ Verify
  \/ Queue
  \/ cleanupExpired
  \/ checkAndTriggerSettlements
  \/ ForceSettlement
  \/ SignerSucceeds
  \/ SignerFails

SpecEngine == Init /\ [][NextEngine]_vars

\* The engine next to the batch routes, which complete and fail batches by hand
NextSettlement ==
  \/ Advance
  \/ Verify
  \/ Queue
  \/ CreateBatch
  \/ CompleteBatch
  \/ FailBatch
  \/ checkAndTriggerSettlements
  \/ ForceSettlement
  \/ SignerSucceeds
  \/ SignerFails

SpecSettlement == Init /\ [][NextSettlement]_vars

\* The facilitator with the replies of its routes recorded
InitObserved ==
  /\ now = 0
  /\ authorizations = [id \in AuthIds |-> NoAuth]
  /\ authKeys = <<>>
  /\ agentUsage = [a \in Agents |-> NoUsage]
  /\ settlementQueue = <<>>
  /\ settlementBatches = <<>>
  /\ disputes = <<>>
  /\ disputeLog = <<>>
  /\ processing = {}
  /\ calls = {}
  /\ Loaded(TRUE)
  /\ observed = TRUE
  /\ result = Silent

\* Replies of verify and queue, among the operations that move an authorization
NextReplies ==
  \/ Advance
  \/ Verify
  \/ Queue
  \/ Settle
  \/ CreateDispute
  \/ cleanupExpired

SpecReplies == InitObserved /\ [][NextReplies]_vars

\* Replies of the batch routes
NextBatchReplies ==
  \/ Advance
  \/ Verify
  \/ Queue
  \/ CreateBatch
  \/ CompleteBatch
  \/ FailBatch

SpecBatchReplies == InitObserved /\ [][NextBatchReplies]_vars

----------------------------------------------------------------------------
(* Properties *)

Status(id) == authorizations[id].status

CompletedBatchesOf(id) ==
  {k \in 1..Len(settlementBatches) :
     /\ settlementBatches[k].status = "completed"
     /\ Includes(settlementBatches[k].authorizations, id)}

\* C1: every authorization whose status is settled is a member of exactly one
\* batch whose status is completed.
C1_SettledInExactlyOneCompletedBatch ==
  \A id \in AuthIds :
    (Exists(id) /\ Status(id) = "settled") => Cardinality(CompletedBatchesOf(id)) = 1

\* The (agent, merchant) pair a suspended call has dispatched a batch for
PairOf(call) ==
  <<settlementBatches[call.batch].agentAddress, settlementBatches[call.batch].merchantAddress>>

\* C2: at most one batch of a given (agent, merchant) pair is in flight (created
\* and waiting for the Signer) at any time.
C2_OneBatchInFlightPerPair ==
  \A c1 \in calls, c2 \in calls : c1 # c2 => PairOf(c1) # PairOf(c2)

\* C3: every id in the settlement queue is that of an authorization whose status
\* is validated.
C3_QueuedIsValidated ==
  \A i \in 1..Len(settlementQueue) : Status(settlementQueue[i]) = "validated"

\* C4: once the status of an authorization is settled or expired, no operation
\* changes it again.
C4_SettledAndExpiredAreFinal ==
  [][\A id \in AuthIds :
       (Exists(id) /\ Status(id) \in {"settled", "expired"})
         => authorizations'[id].status = Status(id)]_vars

\* The step in which the Signer call of `call` fails
SignerFailsFor(call) ==
  /\ call \in calls
  /\ call \notin calls'
  /\ result' = Ended(FALSE, "Signer error", call.batch)

\* C5: when the Signer call of a triggerSettlement call fails, the batch that this
\* call created is the one set to failed with the error message, its members are
\* reset to pending, the key of the call leaves the in-flight set and the error
\* reaches the caller.
C5_FailureFailsTheDispatchedBatch ==
  [][\A call \in calls :
       SignerFailsFor(call) =>
         /\ settlementBatches'[call.batch].status = "failed"
         /\ settlementBatches'[call.batch].error = "Signer error"
         /\ \A i \in 1..Len(settlementBatches[call.batch].authorizations) :
              authorizations'[settlementBatches[call.batch].authorizations[i]].status = "pending"
         /\ call.key \notin processing'
         /\ ~result'.ok]_vars

\* The queued authorizations of one (agent, merchant) group, the set P of the
\* threshold policy
GroupQueued(agentAddress, merchantAddress) ==
  SelectSeq(settlementQueue,
            LAMBDA id : /\ authorizations[id].agentAddress = agentAddress
                        /\ authorizations[id].merchantAddress = merchantAddress)

\* A tick started now calls triggerSettlement for the group, and the call
\* dispatches a batch
TickRedispatches(agentAddress, merchantAddress) ==
  LET pendingAuths == SelectSeq(listPendingAuthorizations(Cur, agentAddress),
                                LAMBDA id : authorizations[id].merchantAddress = merchantAddress)
  IN /\ Includes(AgentMerchantPairs(authorizations), <<agentAddress, merchantAddress>>)
     /\ pendingAuths # <<>>
     /\ checkThresholds(pendingAuths, authorizations, agentUsage[agentAddress])

\* C6: after a Signer failure for a group, with nothing but time passing since, a
\* scheduler tick triggers the group again if its thresholds still fire.
C6_TickRetriesAfterFailure ==
  \A k \in 1..Len(settlementBatches) :
    LET agentAddress == settlementBatches[k].agentAddress
        merchantAddress == settlementBatches[k].merchantAddress
        P == GroupQueued(agentAddress, merchantAddress)
    IN (/\ result = Ended(FALSE, "Signer error", k)
        /\ P # <<>>
        /\ checkThresholds(P, authorizations, agentUsage[agentAddress]))
         => TickRedispatches(agentAddress, merchantAddress)

\* C7: an authorization whose dispute was resolved as approved stays disputed
\* (and so is never settled).
C7_ApprovedStaysDisputed ==
  \A k \in 1..Len(disputes) :
    disputeLog[k].resolution = "approved" => Status(disputes[k].authorizationId) = "disputed"

\* C8: for every dispute that is not resolved, or that was resolved as approved,
\* the authorization it refers to is not in the settlement queue.
C8_OpenOrApprovedDisputeNotQueued ==
  \A k \in 1..Len(disputes) :
    (disputes[k].status # "resolved" \/ disputeLog[k].resolution = "approved")
      => ~Includes(settlementQueue, disputes[k].authorizationId)

DisputeCreatedFor(authorizationId) ==
  /\ Len(disputes') = Len(disputes) + 1
  /\ disputes'[Len(disputes')].authorizationId = authorizationId

C10_TerminalBatchStatus ==
  [][\A k \in 1..Len(settlementBatches) :
       settlementBatches[k].status \in {"completed", "failed"}
         => settlementBatches'[k].status = settlementBatches[k].status]_vars

\* C11: once the triggerSettlement call that created a batch has finished, the
\* batch is completed or failed: a batch is pending only while its call is
\* suspended in the Signer.
C11_NoPendingBatchAfterItsCall ==
  \A k \in 1..Len(settlementBatches) :
    settlementBatches[k].status = "pending" => \E call \in calls : call.batch = k

AcceptedOf(agentAddress) ==
  SelectSeq(authKeys, LAMBDA id : authorizations[id].agentAddress = agentAddress)

UsageMatchesAccepted ==
  \A a \in Agents :
    /\ agentUsage[a].totalAmount = SumSeq(AmountsOf(AcceptedOf(a), authorizations))
    /\ agentUsage[a].requestCount = Len(AcceptedOf(a))
    /\ agentUsage[a].authorizations = AcceptedOf(a)

\* C13: for every agent, totalAmount is the sum of the amounts of the
\* authorizations verify accepted, requestCount is their number and the length
\* of the id list; neither ever decreases, and the usage changes only in a step
\* that stores a new authorization (so not in a rejected verify).
C13_UsageCountsAcceptedVerifies ==
  /\ []UsageMatchesAccepted
  /\ [][/\ \A a \in Agents :
             /\ agentUsage'[a].totalAmount >= agentUsage[a].totalAmount
             /\ agentUsage'[a].requestCount >= agentUsage[a].requestCount
        /\ agentUsage' # agentUsage => Len(authKeys') = Len(authKeys) + 1]_vars

\* Both authorizations of agent A are counted while one is disputed or expired
\* and the other is the member of a failed batch
C13_Witness ==
  /\ agentUsage["A"].requestCount = 2
  /\ agentUsage["A"].totalAmount = AmountOf("a1") + AmountOf("a2")
  /\ Status("a1") \in {"disputed", "expired"}
  /\ \E k \in 1..Len(settlementBatches) :
       /\ settlementBatches[k].status = "failed"
       /\ Includes(settlementBatches[k].authorizations, "a2")

\* What the specification has verify answer: the first applicable reason, "" for
\* an accepted authorization
VerifyReason(authorization) ==
  IF Exists(authorization.id) THEN "Authorization already exists"
  ELSE IF authorization.expiresAt < now THEN "Authorization expired"
  ELSE IF authorization.signature # Sha256Hex(Payload(authorization)) THEN "Invalid signature"
  ELSE ""

\* C14: verify rejects with the first applicable reason in the order: already
\* exists, expired (expiresAt < now, strictly), invalid signature; a rejected
\* verify leaves the store, the usage and the queue unchanged, and the ids of the
\* store stay unique.
C14_VerifyRejectsInOrder ==
  /\ [](Cardinality(Range(authKeys)) = Len(authKeys))
  /\ [][\A id \in AuthIds, status \in SubmittedStatus, goodSig \in BOOLEAN :
          LET authorization == Authorization(id, status, goodSig)
          IN verifyAuthorization(authorization) =>
               /\ result'.op = "verify"
               /\ result'.reason = VerifyReason(authorization)
               /\ result'.ok = (VerifyReason(authorization) = "")
               /\ (authorization.expiresAt = now - 1 /\ ~Exists(id)
                     => result'.reason = "Authorization expired")
               /\ (~result'.ok =>
                     UNCHANGED <<authorizations, authKeys, agentUsage, settlementQueue>>)]_vars

\* A verify was rejected as expired while authorizations were stored and queued
C14_Witness ==
  /\ result = [op |-> "verify", ok |-> FALSE, reason |-> "Authorization expired", batch |-> 0]
  /\ authKeys # <<>>
  /\ settlementQueue # <<>>

\* The step in which verify stores the authorization
StoredBy(id) ==
  /\ ~Exists(id)
  /\ authKeys' = Append(authKeys, id)

\* C15: after a successful verify the stored authorization has status pending,
\* whatever status the submitted object carried.
C15_VerifiedIsPending ==
  [][\A id \in AuthIds : StoredBy(id) => authorizations'[id].status = "pending"]_vars

\* The reason for which queueForSettlement fails, "" when it does not
QueueFailure(id) ==
  IF ~Exists(id) THEN "Authorization not found"
  ELSE IF Count(settlementQueue, id) > 0 THEN "Already queued"
  ELSE IF Status(id) = "settled" THEN "Already settled"
  ELSE ""

\* shouldSettle of a reply of queueForSettlement
ShouldSettle(reply) == reply.ok /\ reply.reason = "Settlement threshold met"

\* C16: queueForSettlement fails with 'Authorization not found' for an unknown
\* id, with 'Already queued' for a queued id and with 'Already settled' for a
\* settled one; a failed call returns shouldSettle = false and changes neither
\* the queue nor any status.
C16_QueueFailures ==
  [][\A id \in AuthIds :
       queueForSettlement(id) =>
         /\ result'.op = "queue"
         /\ result'.ok = (QueueFailure(id) = "")
         /\ (~result'.ok =>
               /\ result'.reason = QueueFailure(id)
               /\ ~ShouldSettle(result')
               /\ UNCHANGED <<authorizations, settlementQueue>>)]_vars

\* A queueForSettlement was refused as already settled while the queue was not
\* empty
C16_Witness ==
  /\ result = [op |-> "queue", ok |-> FALSE, reason |-> "Already settled", batch |-> 0]
  /\ settlementQueue # <<>>

\* C17: a successful queueForSettlement is the transition pending -> validated:
\* it succeeds only for a pending authorization (never for a disputed or an
\* expired one), appends the id once and sets the status to validated.
C17_QueueOnlyPending ==
  [][\A id \in AuthIds :
       (queueForSettlement(id) /\ result'.ok) =>
         /\ Status(id) = "pending"
         /\ settlementQueue' = Append(settlementQueue, id)
         /\ Count(settlementQueue', id) = 1
         /\ authorizations'[id].status = "validated"]_vars

RepliedBy(op) == result'.op = op /\ now' = now

\* C19: after verify, queueForSettlement, createBatch and
\* completeSettlement(batchId, txSig) the batch is completed with
\* transactionSignature = txSig and settledAt set, and every member is settled
\* and has no occurrence left in the settlement queue.
C19_CompletionSettlesMembers ==
  [][(RepliedBy("batch/complete") /\ result'.ok) =>
       \E k \in 1..Len(settlementBatches) :
         /\ settlementBatches' =
              [settlementBatches EXCEPT ![k] =
                 [@ EXCEPT !.status = "completed", !.transactionSignature = "tx_abc",
                           !.settledAt = now]]
         /\ settlementBatches'[k].settledAt # Undefined
         /\ \A i \in 1..Len(settlementBatches[k].authorizations) :
              LET id == settlementBatches[k].authorizations[i]
              IN /\ authorizations'[id].status = "settled"
                 /\ Count(settlementQueue', id) = 0]_vars

\* A batch was completed, its member is settled and gone from the queue, and
\* the other authorization is still queued
C19_Witness ==
  /\ result = [op |-> "batch/complete", ok |-> TRUE, reason |-> "", batch |-> 0]
  /\ settlementQueue # <<>>
  /\ \E k \in 1..Len(settlementBatches) :
       /\ settlementBatches[k].status = "completed"
       /\ \A i \in 1..Len(settlementBatches[k].authorizations) :
            /\ Status(settlementBatches[k].authorizations[i]) = "settled"
            /\ ~Includes(settlementQueue, settlementBatches[k].authorizations[i])

\* C20: failSettlement(batchId, msg) sets the batch to failed with error = msg and
\* every member to pending, and leaves the queue, the usage, the disputes and
\* every other batch unchanged; with an unknown batchId it, like
\* completeSettlement, raises 'Settlement batch not found' and changes nothing.
C20_FailureFrame ==
  [][/\ (RepliedBy("batch/fail") /\ result'.ok) =>
          /\ \E k \in 1..Len(settlementBatches) :
               /\ settlementBatches' =
                    [settlementBatches EXCEPT ![k] =
                       [@ EXCEPT !.status = "failed", !.error = "failed"]]
               /\ \A i \in 1..Len(settlementBatches[k].authorizations) :
                    authorizations'[settlementBatches[k].authorizations[i]].status = "pending"
          /\ UNCHANGED <<settlementQueue, agentUsage, disputes>>
     /\ (/\ RepliedBy("batch/fail") \/ RepliedBy("batch/complete")
         /\ result'.reason = "Settlement batch not found") =>
          /\ ~result'.ok
          /\ UNCHANGED <<facilitatorVars, processing, calls>>]_vars

\* A batch was failed: its member is pending again and still in the queue
C20_Witness ==
  /\ result = [op |-> "batch/fail", ok |-> TRUE, reason |-> "", batch |-> 0]
  /\ \E k \in 1..Len(settlementBatches) :
       /\ settlementBatches[k].status = "failed"
       /\ settlementBatches[k].error = "failed"
       /\ \A i \in 1..Len(settlementBatches[k].authorizations) :
            /\ Status(settlementBatches[k].authorizations[i]) = "pending"
            /\ Includes(settlementQueue, settlementBatches[k].authorizations[i])

\* The sweep among verify, queue and failed batches (whose members are pending
\* and still queued), with the replies recorded
NextSweep ==
  \/ Advance
  \/ Verify
  \/ Queue
  \/ CreateBatch
  \/ FailBatch
  \/ CreateDispute
  \/ cleanupExpired

SpecSweep == InitObserved /\ [][NextSweep]_vars

Currencies == {"USDC", "SOL"}

\* A signed request body of POST /verify whose merchant and currency the agent
\* chooses
Submitted(id, merchantAddress, currency) ==
  LET body == [Authorization(id, "pending", TRUE) EXCEPT
                 !.merchantAddress = merchantAddress, !.currency = currency]
  IN [body EXCEPT !.signature = Sha256Hex(Payload(body))]

\* POST /verify with authorizations of either currency for either merchant
VerifyAnyCurrency ==
  \E id \in AuthIds, merchantAddress \in Merchants, currency \in Currencies :
    verifyAuthorization(Submitted(id, merchantAddress, currency))

\* The batch registry fed with authorizations of several currencies
NextBatches ==
  \/ Advance
  \/ VerifyAnyCurrency
  \/ Queue
  \/ CreateBatch
  \/ CompleteBatch
  \/ FailBatch

SpecBatches == Init /\ [][NextBatches]_vars

\* C22: all members of a batch share the batch's agentAddress, merchantAddress
\* and currency, and totalAmount is the sum of the members' amounts.
C22_BatchIsHomogeneous ==
  \A k \in 1..Len(settlementBatches) :
    LET batch == settlementBatches[k]
    IN /\ \A i \in 1..Len(batch.authorizations) :
            LET member == authorizations[batch.authorizations[i]]
            IN /\ member.agentAddress = batch.agentAddress
               /\ member.merchantAddress = batch.merchantAddress
               /\ member.currency = batch.currency
       /\ batch.totalAmount = SumSeq(AmountsOf(batch.authorizations, authorizations))

C24_ResolveDisputeContract ==
  [][\A disputeId \in DisputeIds, resolution \in {"approved", "rejected"} :
       LET k == FindDispute(disputeId)
           id == disputes[k].authorizationId
       IN (resolveDispute(disputeId, resolution, "note") /\ k # 0) =>
            /\ Len(disputes') = Len(disputes)
            /\ disputes'[k].status = "resolved"
            /\ disputes'[k].resolution = "note"
            /\ disputes'[k].resolvedAt = now
            /\ disputes'[k].authorizationId = id
            /\ IF resolution = "rejected"
               THEN /\ authorizations'[id].status = "validated"
                    /\ Includes(settlementQueue', id)
                    /\ settlementQueue' = Append(settlementQueue, id)
               ELSE /\ authorizations'[id].status = "disputed"
                    /\ settlementQueue' = settlementQueue]_vars

\* The round trip verify, createDispute, resolveDispute(rejected): the dispute is
\* resolved with the note and the authorization is validated and queued
C24_Witness ==
  \E k \in 1..Len(disputes) :
    /\ disputes[k].status = "resolved"
    /\ disputes[k].resolution = "note"
    /\ disputeLog[k].resolution = "rejected"
    /\ Status(disputes[k].authorizationId) = "validated"
    /\ Includes(settlementQueue, disputes[k].authorizationId)

----------------------------------------------------------------------------
(* The scheduler of the settlement engine (SettlementService.start, stop) *)

MaxTimers == 2

\* setInterval: a handle that no live interval has
NewHandle == CHOOSE h \in 1..MaxTimers : h \notin timers

\* start(): nothing when auto-trigger is disabled; otherwise a new interval
\* whose handle replaces the one kept in intervalHandle
start ==
  /\ IF ~autoTrigger
     THEN UNCHANGED <<intervalHandle, timers>>
     ELSE /\ Cardinality(timers) < MaxTimers
          /\ intervalHandle' = NewHandle
          /\ timers' = timers \cup {NewHandle}
  /\ result' = Returned("settlement/start", TRUE, "")
  /\ UNCHANGED <<now, facilitatorVars, processing, calls, observed,
                 autoTrigger, metricsHistory, report>>

\* stop(): clears the interval kept in intervalHandle, if there is one
stop ==
  /\ IF intervalHandle # NoHandle
     THEN /\ timers' = timers \ {intervalHandle}
          /\ intervalHandle' = NoHandle
     ELSE UNCHANGED <<intervalHandle, timers>>
  /\ result' = Returned("settlement/stop", TRUE, "")
  /\ UNCHANGED <<now, facilitatorVars, processing, calls, observed,
                 autoTrigger, metricsHistory, report>>

\* An interval that has not been cleared fires: the scheduler tick
Tick ==
  /\ \E h \in timers : TRUE
  /\ checkAndTriggerSettlements

\* SettlementService.getStatistics
getStatistics ==
  LET with(status) == {k \in 1..Len(settlementBatches) : settlementBatches[k].status = status}
      volume[k \in 0..Len(settlementBatches)] ==
        IF k = 0 THEN 0
        ELSE volume[k-1] + (IF settlementBatches[k].status = "completed"
                            THEN settlementBatches[k].totalAmount ELSE 0)
  IN [total |-> Len(settlementBatches),
      completed |-> Cardinality(with("completed")),
      failed |-> Cardinality(with("failed")),
      pending |-> Cardinality(with("pending")),
      totalVolume |-> volume[Len(settlementBatches)],
      processing |-> Cardinality(processing),
      autoTrigger |-> autoTrigger,
      isRunning |-> intervalHandle # NoHandle]

\* Health checks with the backlog compared against 1001
healthIssuesLateBacklog(settlementStats, queueBacklog) ==
  (IF ~settlementStats.isRunning /\ settlementStats.autoTrigger
   THEN <<"Auto-settlement service not running">> ELSE <<>>)
  \o (IF settlementStats.failed * 10 > settlementStats.completed
      THEN <<"High settlement failure rate">> ELSE <<>>)
  \o (IF queueBacklog > 1001
      THEN <<"Large settlement queue backlog">> ELSE <<>>)

\* The three checks of getSystemHealth, in the order they push their issue
healthIssues(settlementStats, queueBacklog) ==
  (IF ~settlementStats.isRunning /\ settlementStats.autoTrigger
   THEN <<"Auto-settlement service not running">> ELSE <<>>)
  \o (IF settlementStats.failed * 10 > settlementStats.completed
      THEN <<"High settlement failure rate">> ELSE <<>>)
  \o (IF queueBacklog > 1000
      THEN <<"Large settlement queue backlog">> ELSE <<>>)

\* MonitoringService.getSystemHealth, from the statistics of the engine and the
\* length of the settlement queue
systemHealth(settlementStats, queueBacklog) ==
  LET issues == healthIssues(settlementStats, queueBacklog)
  IN [status |-> IF Len(issues) > 3 THEN "down"
                 ELSE IF issues # <<>> THEN "degraded"
                 ELSE "healthy",
      uptime |-> now,
      lastCheck |-> now,
      issues |-> issues,
      autoSettlementRunning |-> settlementStats.isRunning,
      queueBacklog |-> queueBacklog,
      processingDelay |-> IF settlementStats.autoTrigger THEN queueBacklog * 2 ELSE 0]

\* The frame of a Monitoring projection: it returns a report and writes nothing
Projected(op, value) ==
  /\ report' = [op |-> op, value |-> value]
  /\ UNCHANGED <<now, facilitatorVars, processing, calls, observed, result,
                 autoTrigger, intervalHandle, timers, metricsHistory>>

\* GET /monitoring/health
getSystemHealth ==
  Projected("health", systemHealth(getStatistics, Len(settlementQueue)))

InitScheduler ==
  /\ now = 0
  /\ authorizations = [id \in AuthIds |-> NoAuth]
  /\ authKeys = <<>>
  /\ agentUsage = [a \in Agents |-> NoUsage]
  /\ settlementQueue = <<>>
  /\ settlementBatches = <<>>
  /\ disputes = <<>>
  /\ disputeLog = <<>>
  /\ processing = {}
  /\ calls = {}
  /\ \E enabled \in BOOLEAN : Loaded(enabled)
  /\ observed = FALSE
  /\ result = Silent

\* The scheduler: its ticks, started and stopped while authorizations are queued
NextScheduler ==
  \/ Verify
  \/ Queue
  \/ start
  \/ stop
  \/ Tick
  \/ SignerSucceeds
  \/ SignerFails
  \/ getSystemHealth

SpecScheduler == InitScheduler /\ [][NextScheduler]_vars

\* C25: the scheduler is cancellable: while it is stopped (no interval handle is
\* kept: auto-trigger disabled, or stop() has returned and start() has not been
\* called since) no interval is live, so no tick occurs.
C25_StoppedSchedulerHasNoTimer ==
  intervalHandle = NoHandle => timers = {}

----------------------------------------------------------------------------
(* Monitoring (MonitoringService): projections of the facilitator state.     *)
(* Ratios are counted in hundredths, the two decimals of toFixed(2); uptime  *)
(* is the clock, the service having been constructed at time 0.              *)

\* The size of the history ring: maxHistorySize is 1000 in the source; the ring
\* is checked at a small size
maxHistorySize == 2

\* (n / d).toFixed(...): the quotient rounded to the nearest unit
Rounded(n, d) == (2 * n + d) \div (2 * d)

\* Object.values(facilitator.authorizations)
AllAuthorizations == [i \in 1..Len(authKeys) |-> authorizations[authKeys[i]]]

\* array.filter(x => x.status === status).length
WithStatus(seq, status) == Cardinality({i \in 1..Len(seq) : seq[i].status = status})

\* MonitoringService.getPaymentMetrics
getPaymentMetrics ==
  LET all == AllAuthorizations
      total == Len(all)
      totalVolume == SumSeq([i \in 1..total |-> all[i].amount])
  IN [totalAuthorizations |-> total,
      pendingAuthorizations |-> WithStatus(all, "pending"),
      validatedAuthorizations |-> WithStatus(all, "validated"),
      settledAuthorizations |-> WithStatus(all, "settled"),
      disputedAuthorizations |-> WithStatus(all, "disputed"),
      expiredAuthorizations |-> WithStatus(all, "expired"),
      totalVolume |-> totalVolume,
      averageAmount |-> IF total > 0 THEN Rounded(totalVolume, total) ELSE 0,
      authorizationRate |-> IF now > 0 THEN Rounded(total * 100, now) ELSE 0]

\* MonitoringService.getSettlementMetrics
getSettlementMetrics ==
  LET batches == settlementBatches
      total == Len(batches)
      completedBatches == SelectSeq(batches, LAMBDA b : b.status = "completed")
      completed == Len(completedBatches)
      totalSettled == SumSeq([i \in 1..completed |-> completedBatches[i].totalAmount])
      sizes == SumSeq([i \in 1..total |-> Len(batches[i].authorizations)])
      timed == SelectSeq(completedBatches, LAMBDA b : b.settledAt # Undefined)
      settlementTimes == [i \in 1..Len(timed) |-> timed[i].settledAt - timed[i].createdAt]
  IN [totalBatches |-> total,
      completedBatches |-> completed,
      failedBatches |-> WithStatus(batches, "failed"),
      pendingBatches |-> WithStatus(batches, "pending"),
      totalSettled |-> totalSettled,
      averageBatchSize |-> IF total > 0 THEN Rounded(sizes * 100, total) ELSE 0,
      averageBatchAmount |-> IF completed > 0 THEN Rounded(totalSettled, completed) ELSE 0,
      settlementRate |-> IF now > 0 THEN Rounded(completed * 100, now) ELSE 0,
      averageSettlementTime |-> IF Len(timed) > 0
                                THEN Rounded(SumSeq(settlementTimes) * 100, Len(timed))
                                ELSE 0]

\* MonitoringService.getDisputeMetrics: a resolved dispute counts as approved
\* when its authorization has status disputed
getDisputeMetrics ==
  LET total == Len(disputes)
      resolvedDisputes == SelectSeq(disputes, LAMBDA d : d.status = "resolved")
      resolved == Len(resolvedDisputes)
      approved == Len(SelectSeq(resolvedDisputes,
                    LAMBDA d : /\ Exists(d.authorizationId)
                               /\ authorizations[d.authorizationId].status = "disputed"))
      timed == SelectSeq(resolvedDisputes, LAMBDA d : d.resolvedAt # Undefined)
      resolutionTimes == [i \in 1..Len(timed) |-> timed[i].resolvedAt - timed[i].createdAt]
  IN [totalDisputes |-> total,
      pendingDisputes |-> WithStatus(disputes, "pending"),
      resolvedDisputes |-> resolved,
      approvedDisputes |-> approved,
      rejectedDisputes |-> resolved - approved,
      disputeRate |-> IF Len(authKeys) > 0 THEN Rounded(total * 10000, Len(authKeys)) ELSE 0,
      averageResolutionTime |-> IF Len(timed) > 0
                                THEN Rounded(SumSeq(resolutionTimes) * 100, Len(timed))
                                ELSE 0]

Min(a, b) == IF a < b THEN a ELSE b
Max(a, b) == IF a > b THEN a ELSE b

\* MonitoringService.getAgentAnalytics
getAgentAnalytics(agentAddress) ==
  LET usage == agentUsage[agentAddress]
      auths == SelectSeq(AllAuthorizations, LAMBDA a : a.agentAddress = agentAddress)
      totalAuths == Len(auths)
      totalDisputes == Len(SelectSeq(disputes, LAMBDA d : d.agentAddress = agentAddress))
      disputeRate == IF totalAuths > 0 THEN Rounded(totalDisputes * 10000, totalAuths) ELSE 0
      settledRate == IF totalAuths > 0
                     THEN Rounded(WithStatus(auths, "settled") * 10000, totalAuths)
                     ELSE 10000
  IN [agentAddress |-> agentAddress,
      totalAuthorizations |-> totalAuths,
      totalVolume |-> usage.totalAmount,
      averageAmount |-> IF totalAuths > 0 THEN Rounded(usage.totalAmount, totalAuths) ELSE 0,
      disputes |-> totalDisputes,
      disputeRate |-> disputeRate,
      firstSeen |-> usage.firstRequestAt,
      reputationScore |-> Max(0, Min(10000, settledRate - disputeRate * 2))]

\* Object.keys(facilitator.agentUsage): the agents that have a usage record; only
\* the agent of the authorizations ever gets one, so the order is theirs
UsageKeys == SelectSeq(<<"A", "B">>, LAMBDA a : agentUsage[a] # NoUsage)

\* MonitoringService.getAllAgentAnalytics
getAllAgentAnalytics == [i \in 1..Len(UsageKeys) |-> getAgentAnalytics(UsageKeys[i])]

\* array.sort((a, b) => b.key - a.key): stable, the largest key first
RECURSIVE ByKeyDescending(_, _)
ByKeyDescending(items, keys) ==
  IF keys = {} THEN <<>>
  ELSE LET m == CHOOSE k \in keys : \A j \in keys : j <= k
       IN SelectSeq(items, LAMBDA x : x.key = m) \o ByKeyDescending(items, keys \ {m})

Sorted(items) == ByKeyDescending(items, {items[i].key : i \in 1..Len(items)})

\* array.slice(0, limit)
Slice(seq, limit) == SubSeq(seq, 1, Min(limit, Len(seq)))

\* MonitoringService.getTopAgents
getTopAgents(limit) ==
  LET all == getAllAgentAnalytics
  IN Slice(Sorted([i \in 1..Len(all) |-> [key |-> all[i].totalVolume, data |-> all[i]]]), limit)

\* MonitoringService.getRecentActivity
getRecentActivity(limit) ==
  LET all == AllAuthorizations
      activity ==
        [i \in 1..Len(all) |->
           [key |-> all[i].timestamp, type |-> "authorization", data |-> all[i].id]]
        \o [i \in 1..Len(settlementBatches) |->
           [key |-> settlementBatches[i].createdAt, type |-> "settlement",
            data |-> settlementBatches[i].id]]
        \o [i \in 1..Len(disputes) |->
           [key |-> disputes[i].createdAt, type |-> "dispute", data |-> disputes[i].id]]
  IN Slice(Sorted(activity), limit)

\* MonitoringService.getDashboard
getDashboard ==
  [timestamp |-> now,
   health |-> systemHealth(getStatistics, Len(settlementQueue)),
   payments |-> getPaymentMetrics,
   settlements |-> getSettlementMetrics,
   disputes |-> getDisputeMetrics,
   topAgents |-> getTopAgents(10),
   recentActivity |-> getRecentActivity(20)]

\* history.slice(-limit) when a limit below the length is given, else the history
getMetricsHistory(limit) ==
  IF limit # 0 /\ limit < Len(metricsHistory)
  THEN SubSeq(metricsHistory, Len(metricsHistory) - limit + 1, Len(metricsHistory))
  ELSE metricsHistory

\* GET /monitoring/metrics?type=...
Metrics ==
  \/ Projected("metrics/payments", getPaymentMetrics)
  \/ Projected("metrics/settlements", getSettlementMetrics)
  \/ Projected("metrics/disputes", getDisputeMetrics)
  \/ Projected("metrics/all", [payments |-> getPaymentMetrics,
                               settlements |-> getSettlementMetrics,
                               disputes |-> getDisputeMetrics])

\* GET /monitoring/agent/:address
AgentAnalytics == \E address \in Agents : Projected("agent", getAgentAnalytics(address))

\* GET /monitoring/agents
AllAgentAnalytics == Projected("agents", getAllAgentAnalytics)

\* GET /monitoring/dashboard
Dashboard == Projected("dashboard", getDashboard)

\* A read of the history that cuts the array it reads
HistoryCut(limit) ==
  /\ report' = [op |-> "history", value |-> getMetricsHistory(limit)]
  /\ metricsHistory' = getMetricsHistory(limit)
  /\ UNCHANGED <<now, facilitatorVars, processing, calls, observed, result,
                 autoTrigger, intervalHandle, timers>>

\* GET /monitoring/history?limit=... (0: no limit given)
History(limit) ==
  Projected("history", getMetricsHistory(limit))

\* A ring that keeps its oldest snapshot and drops the one after it
DropSecond(history) == <<Head(history)>> \o Tail(Tail(history))

\* metricsHistory.shift(): the oldest snapshot goes
Shift(history) == Tail(history)

\* The snapshot takeSnapshot builds
Snapshot ==
  [timestamp |-> now,
   payments |-> getPaymentMetrics,
   settlements |-> getSettlementMetrics,
   disputes |-> getDisputeMetrics]

\* MonitoringService.takeSnapshot, the callback of startSnapshotCollection
takeSnapshot ==
  /\ metricsHistory' =
       (LET pushed == Append(metricsHistory, Snapshot)
        IN IF Len(pushed) > maxHistorySize THEN Shift(pushed) ELSE pushed)
  /\ UNCHANGED <<now, facilitatorVars, processing, calls, observed, result,
                 autoTrigger, intervalHandle, timers, report>>

\* Monitoring at work while authorizations are verified and disputed
NextMonitoring ==
  \/ Verify
  \/ CreateDispute
  \/ Metrics
  \/ AgentAnalytics
  \/ AllAgentAnalytics
  \/ getSystemHealth
  \/ Dashboard
  \/ \E limit \in 0..1 : History(limit)
  \/ takeSnapshot

SpecMonitoring == Init /\ [][NextMonitoring]_vars

\* The snapshot collection, as time passes and authorizations come in
NextSnapshots ==
  \/ Advance
  \/ Verify
  \/ takeSnapshot
  \/ \E limit \in 0..1 : History(limit)

SpecSnapshots == Init /\ [][NextSnapshots]_vars

\* C26: the Monitoring projections (payment, settlement and dispute metrics,
\* agent analytics, system health, dashboard, metrics history) leave the
\* authorizations, the agent usage, the settlement queue, the batches, the
\* disputes and the metrics history unchanged; the metrics history changes only
\* by takeSnapshot putting the snapshot of the present state at its end, which
\* changes nothing else.
C26_ProjectionsWriteNothing ==
  [][/\ report' # report =>
          UNCHANGED <<facilitatorVars, processing, calls, metricsHistory,
                      autoTrigger, intervalHandle, timers>>
     /\ metricsHistory' # metricsHistory =>
          /\ metricsHistory'[Len(metricsHistory')] = Snapshot
          /\ UNCHANGED <<facilitatorVars, processing, calls, report,
                         autoTrigger, intervalHandle, timers>>]_vars

\* The dashboard has been read while two authorizations are stored, one of them
\* disputed, and a snapshot is in the history
C26_Witness ==
  /\ report.op = "dashboard"
  /\ report.value.payments.totalAuthorizations = 2
  /\ report.value.disputes.totalDisputes = Len(disputes)
  /\ disputes # <<>>
  /\ metricsHistory # <<>>

\* C27: the metrics history never holds more than maxHistorySize snapshots and
\* is in the order the snapshots were taken; when takeSnapshot changes it, the
\* new history is the most recent snapshots: the end of the old history followed
\* by the new snapshot, the oldest one dropped when the size is exceeded.
C27_HistoryKeepsMostRecent ==
  /\ [](/\ Len(metricsHistory) <= maxHistorySize
        /\ \A i \in 1..Len(metricsHistory) : \A j \in i..Len(metricsHistory) :
             metricsHistory[i].timestamp <= metricsHistory[j].timestamp)
  /\ [][metricsHistory' # metricsHistory =>
          LET pushed == Append(metricsHistory, Snapshot)
              kept == Min(maxHistorySize, Len(pushed))
          IN metricsHistory' = SubSeq(pushed, Len(pushed) - kept + 1, Len(pushed))]_vars

\* The full history was read, and a snapshot taken since has pushed the oldest
\* one out: the history is the rest of what was read, followed by a new snapshot
C27_Witness ==
  /\ report.op = "history"
  /\ Len(report.value) = maxHistorySize
  /\ Len(metricsHistory) = maxHistorySize
  /\ Tail(report.value) = SubSeq(metricsHistory, 1, maxHistorySize - 1)
  /\ report.value # metricsHistory

----------------------------------------------------------------------------
(* getSystemHealth as a function of the statistics and the backlog *)

\* The statistics and backlogs the function is applied to: around the failure
\* ratio of 0.1 and around the backlog of 1000
SampleStatistics ==
  [isRunning : BOOLEAN, autoTrigger : BOOLEAN, failed : 0..2, completed : {0, 9, 10, 11}]
SampleBacklogs == {0, 1000, 1001}

\* getSystemHealth applied to given statistics and a given backlog
SystemHealthOf ==
  \E settlementStats \in SampleStatistics, queueBacklog \in SampleBacklogs :
    /\ report' = [op |-> "health/of",
                  input |-> [settlementStats |-> settlementStats,
                             queueBacklog |-> queueBacklog],
                  value |-> systemHealth(settlementStats, queueBacklog)]
    /\ UNCHANGED <<now, facilitatorVars, processing, calls, observed, result,
                   autoTrigger, intervalHandle, timers, metricsHistory>>

NextHealth == SystemHealthOf

SpecHealth == Init /\ [][NextHealth]_vars

\* C28: getSystemHealth reports the issue of a stopped scheduler exactly when the
\* scheduler is not running while auto-trigger is enabled, the issue of the
\* failure rate exactly when failed > 0.1 x completed, and the issue of the
\* backlog exactly when the backlog is above 1000; the status is healthy when
\* there is no issue, degraded when there are one to three, and down when there
\* are more than three.
C28_HealthStatusFollowsIssues ==
  report.op = "health/of" =>
    LET stats == report.input.settlementStats
        health == report.value
        has(issue) == Includes(health.issues, issue)
    IN /\ has("Auto-settlement service not running")
            <=> (~stats.isRunning /\ stats.autoTrigger)
       /\ has("High settlement failure rate") <=> (10 * stats.failed > stats.completed)
       /\ has("Large settlement queue backlog") <=> (report.input.queueBacklog > 1000)
       /\ health.status = "healthy" <=> (Len(health.issues) = 0)
       /\ health.status = "degraded" <=> (Len(health.issues) \in 1..3)
       /\ health.status = "down" <=> (Len(health.issues) > 3)
       /\ health.status \in {"healthy", "degraded", "down"}

\* All three issues at once: scheduler stopped with auto-trigger enabled, one
\* failure against nine completions, a backlog of 1001; the status is degraded
C28_Witness ==
  /\ report.op = "health/of"
  /\ Len(report.value.issues) = 3
  /\ report.value.status = "degraded"
  /\ report.input.settlementStats.failed = 1
  /\ report.input.settlementStats.completed = 9
  /\ report.input.queueBacklog = 1001

\* C29: getSystemHealth reports processingDelay = 2 x queueBacklog when the
\* scheduler is running and 0 when it is not running.
C29_DelayFollowsRunningScheduler ==
  [][(report' # report /\ report'.op = "health") =>
       /\ report'.value.queueBacklog = Len(settlementQueue)
       /\ report'.value.processingDelay =
            (IF intervalHandle # NoHandle THEN 2 * Len(settlementQueue) ELSE 0)]_vars

\* C30: while a batch is pending, every member's id is in the settlement queue:
\* only the completion of that batch takes its members out of the queue,
\* whatever createDispute, cleanupExpired or other completions run in between.
C30_PendingBatchMembersQueued ==
  \A k \in 1..Len(settlementBatches) :
    settlementBatches[k].status = "pending" =>
      \A i \in 1..Len(settlementBatches[k].authorizations) :
        Includes(settlementQueue, settlementBatches[k].authorizations[i])

\* C31: the shouldSettle that queueForSettlement returns for an authorization of
\* (agent, merchant) equals the decision of the engine's checkThresholds for the
\* group (agent, merchant) in the state the call leaves.
C31_ShouldSettleIsGroupDecision ==
  [][\A id \in AuthIds :
       (queueForSettlement(id) /\ result'.ok) =>
         LET agentAddress == authorizations[id].agentAddress
             merchantAddress == authorizations[id].merchantAddress
             After == [auths |-> authorizations', queue |-> settlementQueue',
                       batches |-> settlementBatches', proc |-> processing']
             pendingAuths == SelectSeq(listPendingAuthorizations(After, agentAddress),
                               LAMBDA q : authorizations'[q].merchantAddress = merchantAddress)
         IN ShouldSettle(result') <=>
              checkThresholds(pendingAuths, authorizations', agentUsage[agentAddress])]_vars

\* The state a step leaves, as the engine's operations read it
After == [auths |-> authorizations', queue |-> settlementQueue',
          batches |-> settlementBatches', proc |-> processing']

\* The group (agent, merchant) has validated queued authorizations and its
\* thresholds fire, in the state the step leaves
FiresAfter(pair) ==
  LET group == SelectSeq(authKeys,
                 LAMBDA id : /\ authorizations'[id] # NoAuth
                             /\ authorizations'[id].agentAddress = pair[1]
                             /\ authorizations'[id].merchantAddress = pair[2]
                             /\ authorizations'[id].status = "validated"
                             /\ Includes(settlementQueue', id))
  IN /\ group # <<>>
     /\ checkThresholds(group, authorizations', agentUsage[pair[1]])

\* What a tick does with the groups it has still to look at, its in-flight set
\* being inFlight: it dispatches nothing if no group fires with a free key, and
\* otherwise dispatches one group that fires and keeps every other firing group
\* among the groups it looks at next
VisitsFiringGroups(toVisit, inFlight) ==
  LET firing == {pair \in toVisit : FiresAfter(pair) /\ pair \notin inFlight}
      dispatched == calls' \ calls
  IN IF firing = {} THEN dispatched = {}
     ELSE \E call \in dispatched :
            /\ dispatched = {call}
            /\ call.key \in firing
            /\ settlementBatches'[call.batch].agentAddress = call.key[1]
            /\ settlementBatches'[call.batch].merchantAddress = call.key[2]
            /\ firing \ {call.key} \subseteq Range(call.rest)
            /\ Range(call.rest) \subseteq toVisit

\* The Signer answered the call or failed it: the call is no longer suspended
SignerReturnsTo(call) ==
  /\ call \in calls
  /\ call \notin calls'
  /\ result'.op = "triggerSettlement"
  /\ result'.batch = call.batch

\* C32: a scheduler tick triggers every group of validated queued authorizations
\* whose thresholds fire and no group whose thresholds do not fire; when the
\* Signer call of one group returns, with a signature or with an error, the tick
\* goes on with the groups after it.
C32_TickVisitsEveryFiringGroup ==
  [][/\ checkAndTriggerSettlements =>
          /\ VisitsFiringGroups(Agents \X Merchants, processing)
          /\ \A call \in calls' \ calls : call.key[2] # NoMerchant
     /\ \A call \in calls :
          (SignerReturnsTo(call) /\ call.key[2] # NoMerchant) =>
            VisitsFiringGroups(Range(call.rest), processing \ {call.key})]_vars

\* The Signer has failed for one group of a tick, and the group after it has
\* been dispatched: its call is the one outstanding
C32_Witness ==
  \E k \in 1..Len(settlementBatches) : \E call \in calls :
    /\ result = Ended(FALSE, "Signer error", k)
    /\ calls = {call}
    /\ call.rest = <<>>
    /\ call.key[2] # NoMerchant
    /\ call.key[2] # settlementBatches[k].merchantAddress
    /\ call.batch > k

\* The engine with the replies of POST /settlement/trigger recorded
NextInFlight ==
  \/ Advance
  \/ Verify
  \/ Queue
  \/ checkAndTriggerSettlements
  \/ ForceSettlement
  \/ SignerSucceeds
  \/ SignerFails

SpecInFlight == InitObserved /\ [][NextInFlight]_vars

\* C33: the in-flight set holds exactly the keys of the triggerSettlement calls
\* that are suspended in the Signer, so it is empty when no call is active: a
\* call adds its key and removes it on every way out.  A triggerSettlement
\* called while its key is in the set returns null and changes neither the
\* facilitator state nor the set nor the outstanding calls.
C33_InFlightSetIsTheActiveCalls ==
  /\ [](processing = {call.key : call \in calls})
  /\ [][\A agentAddress \in Agents :
          (/\ forceSettlement(agentAddress)
           /\ ProcessingKey(agentAddress, NoMerchant) \in processing) =>
            /\ result' = [op |-> "settlement/trigger", ok |-> FALSE,
                          reason |-> "No pending authorizations to settle", batch |-> 0]
            /\ UNCHANGED <<facilitatorVars, processing, calls>>]_vars

\* POST /settlement/trigger was answered with null while the call of an earlier
\* trigger for the agent was with the Signer and the agent had queued
\* authorizations
C33_Witness ==
  \E call \in calls :
    /\ result = [op |-> "settlement/trigger", ok |-> FALSE,
                 reason |-> "No pending authorizations to settle", batch |-> 0]
    /\ call.key = ProcessingKey("A", NoMerchant)
    /\ processing = {call.key}
    /\ QueuedOf(settlementQueue, authorizations, "A") # <<>>

----------------------------------------------------------------------------
(* createSettlementBatch on queues of three authorizations *)

\* Three authorizations of agent A, so that one merchant can have more queued
\* entries than the other
ChoiceIds == {"a1", "a2", "a3"}

\* The orders in which some of the authorizations have been queued
QueueOrders ==
  {q \in UNION {[1..n -> ChoiceIds] : n \in 0..3} :
     \A i \in 1..Len(q) : \A j \in 1..Len(q) : q[i] = q[j] => i = j}

\* The state after the three authorizations were verified at time 0, each for
\* some merchant, and some of them were queued in some order
InitChoice ==
  /\ now = 0
  /\ \E merchantOf \in [ChoiceIds -> Merchants] :
       \E queued \in QueueOrders :
         /\ authorizations =
              [id \in ChoiceIds |->
                 [Submitted(id, merchantOf[id], "USDC") EXCEPT
                    !.status = IF Includes(queued, id) THEN "validated" ELSE "pending"]]
         /\ settlementQueue = queued
  /\ authKeys = <<"a1", "a2", "a3">>
  /\ agentUsage =
       [a \in Agents |->
          IF a = "A"
          THEN [authorizations |-> <<"a1", "a2", "a3">>,
                totalAmount |-> AmountOf("a1") + AmountOf("a2") + AmountOf("a3"),
                firstRequestAt |-> 0,
                requestCount |-> 3]
          ELSE NoUsage]
  /\ settlementBatches = <<>>
  /\ disputes = <<>>
  /\ disputeLog = <<>>
  /\ processing = {}
  /\ calls = {}
  /\ Loaded(TRUE)
  /\ observed = TRUE
  /\ result = Silent

NextChoice == CreateBatch

SpecChoice == InitChoice /\ [][NextChoice]_vars

\* The agent's queued entries for the merchant, in queue order
QueuedFor(agentAddress, merchantAddress) ==
  SelectSeq(settlementQueue,
            LAMBDA id : /\ authorizations[id].agentAddress = agentAddress
                        /\ authorizations[id].merchantAddress = merchantAddress)

\* C34: createBatch(agent) without a merchant builds the batch for a merchant
\* with the largest number of queued entries of the agent, createBatch(agent,
\* merchant) for the given merchant; the members are exactly the agent's queued
\* entries for that merchant; when the agent has no queued entry for the given
\* merchant, or for any merchant when none is given, the call returns null and
\* the registry does not grow.
C34_BatchForMostQueuedMerchant ==
  [][\A agentAddress \in Agents, merchantAddress \in Merchants \cup {NoMerchant} :
       createBatch(agentAddress, merchantAddress) =>
         LET candidates == IF merchantAddress = NoMerchant THEN Merchants
                           ELSE {merchantAddress}
         IN IF \A m \in candidates : QueuedFor(agentAddress, m) = <<>>
            THEN /\ ~result'.ok
                 /\ UNCHANGED settlementBatches
            ELSE LET batch == settlementBatches'[Len(settlementBatches')]
                 IN /\ result'.ok
                    /\ settlementBatches' = Append(settlementBatches, batch)
                    /\ batch.agentAddress = agentAddress
                    /\ batch.merchantAddress \in candidates
                    /\ \A m \in candidates :
                         Len(QueuedFor(agentAddress, m))
                           <= Len(QueuedFor(agentAddress, batch.merchantAddress))
                    /\ batch.authorizations = QueuedFor(agentAddress, batch.merchantAddress)
                    /\ batch.status = "pending"]_vars

\* A batch with the two entries of the merchant that has most, while the entry
\* at the head of the queue, which is the other merchant's, is left out
C34_Witness ==
  /\ result = [op |-> "batch/create", ok |-> TRUE, reason |-> "", batch |-> 0]
  /\ Len(settlementQueue) = 3
  /\ Len(settlementBatches) = 1
  /\ Len(settlementBatches[1].authorizations) = 2
  /\ authorizations[settlementQueue[1]].merchantAddress # settlementBatches[1].merchantAddress

\* The Signer has sent the transfer of the call's batch
SignerSucceedsFor(call) ==
  /\ call \in calls
  /\ call \notin calls'
  /\ result' = Ended(TRUE, "", call.batch)

\* No two batches of the registry have the same id, so that a batch is completed
\* only by the success of its own dispatch
UniqueBatchIds ==
  \A i \in 1..Len(settlementBatches) : \A j \in 1..Len(settlementBatches) :
    settlementBatches[i].id = settlementBatches[j].id => i = j

\* C35: each authorization is a member of at most one batch whose Signer
\* dispatch succeeded: when the Signer sends the transfer of a batch, none of its
\* members is a member of another batch whose transfer was sent before.
C35_PaidAtMostOnce ==
  [][\A call \in calls :
       (SignerSucceedsFor(call) /\ UniqueBatchIds) =>
         \A k \in 1..Len(settlementBatches) :
           (k # call.batch /\ settlementBatches[k].status = "completed") =>
             \A i \in 1..Len(settlementBatches[call.batch].authorizations) :
               ~Includes(settlementBatches[k].authorizations,
                         settlementBatches[call.batch].authorizations[i])]_vars

\* C36: the settlement queue holds every authorization id at most once
C36_QueueHasNoDuplicates ==
  \A id \in AuthIds : Count(settlementQueue, id) <= 1

\* C37: a dispute is resolved at most once: resolveDispute on a dispute whose
\* status is resolved already changes neither the status of the authorization
\* the dispute refers to nor the settlement queue.
C37_ResolvedDisputeIsFinal ==
  [][\A disputeId \in DisputeIds, resolution \in {"approved", "rejected"} :
       LET k == FindDispute(disputeId)
       IN (/\ k # 0
           /\ disputes[k].status = "resolved"
           /\ resolveDispute(disputeId, resolution, "note")) =>
            /\ Status(disputes[k].authorizationId)' = Status(disputes[k].authorizationId)
            /\ settlementQueue' = settlementQueue]_vars

\* C38: batch ids are unique in the batch registry, so that the lookup by id of
\* completeSettlement and failSettlement finds the batch created with that id
C38_BatchIdsAreUnique ==
  \A i \in 1..Len(settlementBatches) :
    FindBatch(settlementBatches, settlementBatches[i].id) = i

----------------------------------------------------------------------------
(* Settlement triggered by the scheduler alone *)

\* The interval callback runs again while the Signer calls of earlier runs are
\* outstanding; nobody calls POST /settlement/trigger
NextTicks ==
  \/ Advance
  \/ Verify
  \/ Queue
  \/ checkAndTriggerSettlements
  \/ SignerSucceeds
  \/ SignerFails

SpecTicks == Init /\ [][NextTicks]_vars

\* The group has validated queued authorizations and its thresholds fire
Fires(pair) ==
  LET group == SelectSeq(authKeys,
                 LAMBDA id : /\ authorizations[id] # NoAuth
                             /\ authorizations[id].agentAddress = pair[1]
                             /\ authorizations[id].merchantAddress = pair[2]
                             /\ authorizations[id].status = "validated"
                             /\ Includes(settlementQueue, id))
  IN /\ group # <<>>
     /\ checkThresholds(group, authorizations, agentUsage[pair[1]])

\* The batches a step has added to the registry
CreatedByStep == (Len(settlementBatches) + 1)..Len(settlementBatches')

\* C39: when only the scheduler triggers settlement, no two Signer dispatches
\* are outstanding for one (agent, merchant) at any time, and a tick that runs
\* while a dispatch for a pair is outstanding creates no batch for that pair.
C39_TicksExcludeEachOtherPerPair ==
  /\ [](\A c1 \in calls, c2 \in calls :
          /\ c1.key[2] # NoMerchant
          /\ PairOf(c1) = PairOf(c2) => c1 = c2)
  /\ [][checkAndTriggerSettlements =>
          \A call \in calls : \A k \in CreatedByStep :
            <<settlementBatches'[k].agentAddress, settlementBatches'[k].merchantAddress>>
              # PairOf(call)]_vars

\* A later tick has gone past a group that fires while the dispatch of an
\* earlier tick for it was outstanding, and has dispatched the group after it
C39_Witness ==
  \E c1 \in calls, c2 \in calls :
    /\ c1.batch < c2.batch
    /\ settlementBatches[c1.batch].createdAt < settlementBatches[c2.batch].createdAt
    /\ Fires(PairOf(c1))
    /\ PairOf(c1) \notin Range(c2.rest)
    /\ PairOf(c1) # PairOf(c2)

\* C40: every id in the settlement queue, the authorizationId of every dispute
\* and every member of every batch is the id of an authorization in the store,
\* and no step removes an authorization from the store.
C40_ReferencesAreStored ==
  /\ [](/\ \A i \in 1..Len(settlementQueue) : Exists(settlementQueue[i])
        /\ \A i \in 1..Len(disputes) : Exists(disputes[i].authorizationId)
        /\ \A k \in 1..Len(settlementBatches) :
             \A i \in 1..Len(settlementBatches[k].authorizations) :
               Exists(settlementBatches[k].authorizations[i]))
  /\ [][\A id \in AuthIds : Exists(id) => Exists(id)']_vars

\* The queue holds an id, a dispute has been resolved and a batch completed, and
\* every authorization submitted is in the store
C40_Witness ==
  /\ settlementQueue # <<>>
  /\ \E i \in 1..Len(disputes) : disputes[i].status = "resolved"
  /\ \E k \in 1..Len(settlementBatches) : settlementBatches[k].status = "completed"
  /\ \A id \in AuthIds : Exists(id)

====
